---- MODULE Spec2Model ----
(***************************************************************************)
(* A model of jsdsl's CircularBuffer<T>: a fixed-capacity ring over a      *)
(* JavaScript array, with insertion and removal at both ends and the       *)
(* allowOverwrite / allowOverremove policies.                              *)
(*                                                                         *)
(* The backing store is a JavaScript array created as [] and grown by      *)
(* indexed assignment, so it is modelled with its own length and with      *)
(* holes: index i of the JavaScript array is position i + 1 of the TLA+    *)
(* sequence.                                                               *)
(***************************************************************************)
EXTENDS Integers, Sequences, FiniteSets, TLC

\* ---------------------------------------------------------------- bounds
MaxCap == 2
NumElems == 2
MaxArgs == 2

\* ------------------------------------------------------ values of type T
Elems == 1..NumElems
\* the JavaScript value undefined
Undefined == 0
\* an index of a JavaScript array that was never assigned
Hole == -1

Min(a, b) == IF a <= b THEN a ELSE b
Max(a, b) == IF a >= b THEN a ELSE b

RECURSIVE SeqsUpTo(_)
\* every argument list of at most n elements
SeqsUpTo(n) ==
    IF n = 0 THEN {<<>>}
    ELSE LET shorter == SeqsUpTo(n - 1)
         IN shorter \cup {Append(s, e) : s \in {t \in shorter : Len(t) = n - 1}, e \in Elems}

ArgLists == SeqsUpTo(MaxArgs)

\* ------------------------------------------------------------ the state
VARIABLES
    firstIndex,       \* this.firstIndex
    elementCount,     \* this.elementCount
    capacity,         \* this.capacity
    buffer,           \* this.buffer
    allowOverwrite,   \* this.allowOverwrite
    allowOverremove,  \* this.allowOverremove
    lastOp,           \* the method called last ("new" after construction)
    lastLen,          \* the number of arguments it was called with
    lastArgs,         \* the arguments it went on to insert (none when it threw)
    result,           \* its return value (Undefined when it threw)
    threw,            \* whether it threw
    preCount,         \* size() before that call
    prevPush,         \* after pop(): the element pushed by the call before it,
                      \* if that was a successful push of one element; else
                      \* Undefined
    deque,            \* the abstract double-ended sequence run alongside
    run,              \* the insert-then-remove run in progress
    hasInternalValue, \* Option: this.hasInternalValue
    value,            \* Option: this.value
    optionOp,         \* Option: the method called last
    optionArg,        \* Option: its argument (Undefined when it takes none)
    optionResult,     \* Option: its return value (Undefined when void)
    optionThrew,      \* Option: whether it threw
    optionBefore      \* Option: the fields before that call

bufferVars == <<firstIndex, elementCount, capacity, buffer, allowOverwrite,
                allowOverremove, lastOp, lastLen, lastArgs, result, threw,
                preCount, prevPush, deque, run>>

optionVars == <<hasInternalValue, value, optionOp, optionArg, optionResult,
                optionThrew, optionBefore>>

vars == <<bufferVars, optionVars>>

\* ------------------------------------------------- JavaScript semantics
\* a % b of JavaScript for b > 0: the result takes the sign of a
JsRem(a, b) == IF a >= 0 THEN a % b ELSE 0 - ((0 - a) % b)

Holes(n) == [k \in 1..n |-> Hole]

\* a[i]
ArrayGet(a, i) ==
    IF i >= 0 /\ i < Len(a) /\ a[i + 1] # Hole THEN a[i + 1] ELSE Undefined

\* a[i] = v, which extends the array when i >= a.length; a negative i names
\* a property of the object and no element of the array
ArraySet(a, i, v) ==
    IF i < 0 THEN a
    ELSE IF i < Len(a) THEN [a EXCEPT ![i + 1] = v]
    ELSE IF i = Len(a) THEN Append(a, v)
    ELSE Append(a \o Holes(i - Len(a)), v)

\* a.slice(start, end): indices are clamped to the length, holes are kept
ArraySlice(a, start, end) ==
    LET len  == Len(a)
        from == IF start < 0 THEN Max(len + start, 0) ELSE Min(start, len)
        to   == IF end < 0 THEN Max(len + end, 0) ELSE Min(end, len)
    IN IF to <= from THEN <<>> ELSE SubSeq(a, from + 1, to)

\* [...a]: iteration reads a hole as undefined
ArraySpread(a) == [i \in 1..Len(a) |-> IF a[i] = Hole THEN Undefined ELSE a[i]]

\* ---------------------------------------------------- the buffer object
\* the mutable fields of the object, as the loops of push and enqueue
\* thread them
this == [firstIndex |-> firstIndex, elementCount |-> elementCount,
         buffer |-> buffer]

\* mutant: the remainder is taken once, so it keeps the sign of the index
wrapIndex_single(index) == JsRem(index, capacity)

wrapIndex(index) == JsRem(JsRem(index, capacity) + capacity, capacity)

getCapacity == capacity

size(s) == s.elementCount

isEmpty(s) == size(s) = 0

\* mutant: full only once the count has passed the capacity
isFull_strict(s) == size(s) > getCapacity

isFull(s) == size(s) >= getCapacity

freeSpace(s) == getCapacity - size(s)

getEndIndex(s) == wrapIndex(s.firstIndex + s.elementCount)

arePointersReversed(s) == s.firstIndex > wrapIndex(getEndIndex(s) - 1)

\* mutant: the insertion size is compared with the capacity
checkInsertionLimitations_capacity(s, insertionSize) ==
    ~allowOverwrite /\ insertionSize > getCapacity

\* TRUE when checkInsertionLimitations(insertionSize) throws
checkInsertionLimitations(s, insertionSize) ==
    ~allowOverwrite /\ insertionSize > freeSpace(s)

\* mutant: the removal size may exceed the count by one
checkRemovalLimitations_offByOne(s, removalSize) ==
    ~allowOverremove /\ removalSize > s.elementCount + 1

\* TRUE when checkRemovalLimitations(removalSize) throws
checkRemovalLimitations(s, removalSize) ==
    ~allowOverremove /\ removalSize > s.elementCount

\* mutant: the wrapped segments are concatenated head first
toArray_headFirst(s) ==
    IF arePointersReversed(s)
    THEN ArraySpread(ArraySlice(s.buffer, 0, getEndIndex(s)))
         \o ArraySpread(ArraySlice(s.buffer, s.firstIndex, Len(s.buffer)))
    ELSE ArraySlice(s.buffer, s.firstIndex, size(s))

toArray(s) ==
    IF arePointersReversed(s)
    THEN ArraySpread(ArraySlice(s.buffer, s.firstIndex, Len(s.buffer)))
         \o ArraySpread(ArraySlice(s.buffer, 0, getEndIndex(s)))
    ELSE ArraySlice(s.buffer, s.firstIndex, size(s))

\* mutant: the first capacity elements are kept instead of the last
truncate_first(elements) ==
    IF allowOverwrite
    THEN ArraySlice(elements, 0, getCapacity)
    ELSE elements

\* elements.slice(-this.getCapacity()) when allowOverwrite
truncate(elements) ==
    IF allowOverwrite
    THEN ArraySlice(elements, 0 - getCapacity, Len(elements))
    ELSE elements

\* mutant: the count grows even when the buffer was full
enqueueStep_alwaysCount(s, element) ==
    LET newFirstIndex == wrapIndex(s.firstIndex - 1)
    IN [firstIndex |-> newFirstIndex,
        elementCount |-> s.elementCount + 1,
        buffer |-> ArraySet(s.buffer, newFirstIndex, element)]

\* one iteration of the loop of enqueue
enqueueStep(s, element) ==
    LET wasFull == isFull(s)
        newFirstIndex == wrapIndex(s.firstIndex - 1)
    IN [firstIndex |-> newFirstIndex,
        elementCount |-> IF ~wasFull THEN s.elementCount + 1 ELSE s.elementCount,
        buffer |-> ArraySet(s.buffer, newFirstIndex, element)]

\* mutant: an overwriting push leaves firstIndex where it was
pushStep_noAdvance(s, element) ==
    LET wasFull == isFull(s)
    IN [firstIndex |-> s.firstIndex,
        elementCount |-> IF ~wasFull THEN s.elementCount + 1 ELSE s.elementCount,
        buffer |-> ArraySet(s.buffer, getEndIndex(s), element)]

\* one iteration of the loop of push
pushStep(s, element) ==
    LET wasFull == isFull(s)
    IN [firstIndex |-> IF ~wasFull THEN s.firstIndex ELSE wrapIndex(s.firstIndex + 1),
        elementCount |-> IF ~wasFull THEN s.elementCount + 1 ELSE s.elementCount,
        buffer |-> ArraySet(s.buffer, getEndIndex(s), element)]

RECURSIVE enqueueLoop_lastFirst(_, _)
\* mutant: the loop of enqueue takes the elements last to first
enqueueLoop_lastFirst(s, elements) ==
    IF elements = <<>> THEN s
    ELSE enqueueLoop_lastFirst(enqueueStep(s, elements[Len(elements)]),
                               SubSeq(elements, 1, Len(elements) - 1))

RECURSIVE enqueueLoop(_, _)
enqueueLoop(s, elements) ==
    IF elements = <<>> THEN s
    ELSE enqueueLoop(enqueueStep(s, Head(elements)), Tail(elements))

RECURSIVE pushLoop(_, _)
pushLoop(s, elements) ==
    IF elements = <<>> THEN s
    ELSE pushLoop(pushStep(s, Head(elements)), Tail(elements))

\* mutant: shift() leaves the removed element in its slot
shiftState_noClear(s) ==
    [firstIndex |-> wrapIndex(s.firstIndex + 1),
     elementCount |-> s.elementCount - 1,
     buffer |-> s.buffer]

\* mutant: shift() forgets to decrement the count
shiftState_keepCount(s) ==
    [firstIndex |-> wrapIndex(s.firstIndex + 1),
     elementCount |-> s.elementCount,
     buffer |-> ArraySet(s.buffer, s.firstIndex, Undefined)]

\* the object after shift() removed an element
shiftState(s) ==
    [firstIndex |-> wrapIndex(s.firstIndex + 1),
     elementCount |-> s.elementCount - 1,
     buffer |-> ArraySet(s.buffer, s.firstIndex, Undefined)]

\* mutant: shift() returns the last element
shiftResult_last(s) == ArrayGet(s.buffer, wrapIndex(getEndIndex(s) - 1))

shiftResult(s) == ArrayGet(s.buffer, s.firstIndex)

\* mutant: the slot after the last element is taken for the last element
dequeueIndex_endSlot(s) == getEndIndex(s)

dequeueIndex(s) == wrapIndex(getEndIndex(s) - 1)

\* mutant: dequeue() leaves the removed element in its slot
dequeueState_noClear(s) ==
    [firstIndex |-> s.firstIndex,
     elementCount |-> s.elementCount - 1,
     buffer |-> s.buffer]

\* the object after dequeue() removed an element
dequeueState(s) ==
    [firstIndex |-> s.firstIndex,
     elementCount |-> s.elementCount - 1,
     buffer |-> ArraySet(s.buffer, dequeueIndex(s), Undefined)]

\* mutant: dequeue() returns the first element
dequeueResult_first(s) == ArrayGet(s.buffer, s.firstIndex)

dequeueResult(s) == ArrayGet(s.buffer, dequeueIndex(s))

\* ------------------------------------------- the abstract sequence
\* The double-ended sequence the buffer is meant to hold, front first.
AbsPushOne(d, e) ==
    IF Len(d) >= capacity THEN Append(Tail(d), e) ELSE Append(d, e)

AbsEnqueueOne(d, e) ==
    IF Len(d) >= capacity THEN <<e>> \o SubSeq(d, 1, Len(d) - 1) ELSE <<e>> \o d

RECURSIVE AbsPush(_, _)
AbsPush(d, elements) ==
    IF elements = <<>> THEN d
    ELSE AbsPush(AbsPushOne(d, Head(elements)), Tail(elements))

RECURSIVE AbsEnqueue(_, _)
AbsEnqueue(d, elements) ==
    IF elements = <<>> THEN d
    ELSE AbsEnqueue(AbsEnqueueOne(d, Head(elements)), Tail(elements))

AbsShift(d) == IF d = <<>> THEN d ELSE Tail(d)

AbsDequeue(d) == IF d = <<>> THEN d ELSE SubSeq(d, 1, Len(d) - 1)

\* ------------------------------------------------ observation helpers
\* run observes insertions by one operation since the buffer was empty and
\* the removals that follow them; any other call ends the observation
NoRun == [kind |-> "none", ins |-> <<>>, outs |-> <<>>]

Strict == ~allowOverwrite /\ ~allowOverremove

\* the last n elements of a sequence (all of it when it is shorter)
LastN(q, n) == SubSeq(q, Max(Len(q) - n, 0) + 1, Len(q))

\* the first n elements of a sequence (all of it when it is shorter)
FirstN(q, n) == SubSeq(q, 1, Min(Len(q), n))

RECURSIVE Reverse(_)
Reverse(q) == IF q = <<>> THEN q ELSE Append(Reverse(Tail(q)), Head(q))

\* the run after a successful insertion of elements by the operation kind:
\* ins holds the elements inserted since the buffer was empty, the last
\* capacity of them once there are more
RunInsert(kind, fails, elements) ==
    IF fails THEN NoRun
    ELSE IF isEmpty(this)
         THEN [kind |-> kind, ins |-> LastN(elements, capacity), outs |-> <<>>]
    ELSE IF run.kind = kind /\ run.outs = <<>>
         THEN [run EXCEPT !.ins = LastN(@ \o elements, capacity)]
    ELSE NoRun

\* the run after a removal that drains the insertions of the operation kind;
\* a removal that returned nothing is recorded as Undefined
RunRemove(kind, removed, returned) ==
    IF Strict /\ run.kind = kind /\ Len(run.outs) < Len(run.ins)
    THEN [run EXCEPT !.outs = Append(@, IF removed THEN returned ELSE Undefined)]
    ELSE NoRun

\* the occupied region read front to back: the elementCount slots from
\* firstIndex on, modulo the capacity
Logical(s) ==
    [i \in 1..s.elementCount |-> ArrayGet(s.buffer, wrapIndex(s.firstIndex + i - 1))]

Insertions == {"enqueue", "push"}

Removals == {"shift", "dequeue", "pop"}

Queries == {"getCapacity", "size", "isEmpty", "isFull", "freeSpace", "toArray"}

\* the element a successful push of one element has just pushed
PrevPushNow ==
    IF lastOp = "push" /\ ~threw /\ Len(lastArgs) = 1 THEN lastArgs[1]
    ELSE Undefined

\* ------------------------------------------------------------ Option
\* the fields of an Option object
OptionObject(has, v) == [hasInternalValue |-> has, value |-> v]

\* Option.some(value)
some(v) == OptionObject(TRUE, v)

\* Option.none()
none == OptionObject(FALSE, Undefined)

thisOption == OptionObject(hasInternalValue, value)

isSome(o) == o.hasInternalValue

isNone(o) == ~o.hasInternalValue

getValue(o) == o.value

getValueOrDefault(o, defaultValue) == IF isSome(o) THEN o.value ELSE defaultValue

contains(o, v) == isSome(o) /\ o.value = v

setValue(o, v) == OptionObject(TRUE, v)

setValueIfNone(o, valueIfNone) == IF isNone(o) THEN [o EXCEPT !.value = valueIfNone] ELSE o

setNone(o) == OptionObject(FALSE, Undefined)

\* callback is a function on the elements
map(o, callback) == IF isNone(o) THEN none ELSE some(callback[o.value])

filter(o, callback) == IF isNone(o) \/ ~callback[o.value] THEN none ELSE some(o.value)

and(o, option) == IF isSome(o) /\ isSome(option) THEN some(option.value) ELSE none

or(o, option) ==
    IF isSome(o) THEN some(o.value)
    ELSE IF isSome(option) THEN some(option.value)
    ELSE none

xor(o, option) ==
    IF isSome(o) /\ isNone(option) THEN some(o.value)
    ELSE IF isNone(o) /\ isSome(option) THEN some(option.value)
    ELSE none

\* the Options a caller can pass as an argument: built by some or none, and
\* possibly given a value by setValueIfNone since
OptionArgs ==
    {none} \cup {some(v) : v \in Elems} \cup {setValueIfNone(none, v) : v \in Elems}

\* no Option has been built
OptionNotInUse ==
    /\ hasInternalValue = FALSE
    /\ value = Undefined
    /\ optionOp = "unused"
    /\ optionArg = Undefined
    /\ optionResult = Undefined
    /\ optionThrew = FALSE
    /\ optionBefore = none

\* -------------------------------------------------------- operations
Init ==
    /\ capacity \in 1..MaxCap
    /\ allowOverwrite \in BOOLEAN
    /\ allowOverremove \in BOOLEAN
    /\ firstIndex = 0
    /\ elementCount = 0
    /\ buffer = <<>>
    /\ lastOp = "new"
    /\ lastLen = 0
    /\ lastArgs = <<>>
    /\ result = Undefined
    /\ threw = FALSE
    /\ preCount = 0
    /\ prevPush = Undefined
    /\ deque = <<>>
    /\ run = NoRun
    /\ OptionNotInUse

\* a call on the buffer changes neither its capacity nor its policies, nor
\* an Option
Frame ==
    /\ UNCHANGED <<capacity, allowOverwrite, allowOverremove>>
    /\ UNCHANGED optionVars

Store(s) ==
    /\ firstIndex' = s.firstIndex
    /\ elementCount' = s.elementCount
    /\ buffer' = s.buffer

Enqueue(elements) ==
    LET fails == checkInsertionLimitations(this, Len(elements))
        s == IF fails THEN this ELSE enqueueLoop(this, truncate(elements))
    IN /\ Store(s)
       /\ lastOp' = "enqueue"
       /\ lastLen' = Len(elements)
       /\ lastArgs' = IF fails THEN <<>> ELSE elements
       /\ threw' = fails
       /\ result' = IF fails THEN Undefined ELSE size(s)
       /\ preCount' = elementCount
       /\ prevPush' = Undefined
       /\ deque' = IF fails THEN deque ELSE AbsEnqueue(deque, elements)
       /\ run' = RunInsert("enqueue", fails, elements)
       /\ Frame

Push(elements) ==
    LET fails == checkInsertionLimitations(this, Len(elements))
        s == IF fails THEN this ELSE pushLoop(this, truncate(elements))
    IN /\ Store(s)
       /\ lastOp' = "push"
       /\ lastLen' = Len(elements)
       /\ lastArgs' = IF fails THEN <<>> ELSE elements
       /\ threw' = fails
       /\ result' = IF fails THEN Undefined ELSE size(s)
       /\ preCount' = elementCount
       /\ prevPush' = Undefined
       /\ deque' = IF fails THEN deque ELSE AbsPush(deque, elements)
       /\ run' = RunInsert("push", fails, elements)
       /\ Frame

Shift ==
    LET absent == isEmpty(this) /\ allowOverremove
        fails == ~absent /\ checkRemovalLimitations(this, 1)
        removed == ~absent /\ ~fails
        s == IF removed THEN shiftState(this) ELSE this
    IN /\ Store(s)
       /\ lastOp' = "shift"
       /\ lastLen' = 0
       /\ lastArgs' = <<>>
       /\ threw' = fails
       /\ result' = IF removed THEN shiftResult(this) ELSE Undefined
       /\ preCount' = elementCount
       /\ prevPush' = Undefined
       /\ deque' = IF removed THEN AbsShift(deque) ELSE deque
       /\ run' = RunRemove("push", removed, shiftResult(this))
       /\ Frame

DequeueAs(name) ==
    LET absent == isEmpty(this) /\ allowOverremove
        fails == ~absent /\ checkRemovalLimitations(this, 1)
        removed == ~absent /\ ~fails
        s == IF removed THEN dequeueState(this) ELSE this
    IN /\ Store(s)
       /\ lastOp' = name
       /\ lastLen' = 0
       /\ lastArgs' = <<>>
       /\ threw' = fails
       /\ result' = IF removed THEN dequeueResult(this) ELSE Undefined
       /\ preCount' = elementCount
       /\ prevPush' = IF name = "pop" THEN PrevPushNow ELSE Undefined
       /\ deque' = IF removed THEN AbsDequeue(deque) ELSE deque
       /\ run' = RunRemove("enqueue", removed, dequeueResult(this))
       /\ Frame

Dequeue == DequeueAs("dequeue")

Pop == DequeueAs("pop")

\* a call that returns returned and leaves the object as s
Observe(name, returned, s) ==
    /\ Store(s)
    /\ lastOp' = name
    /\ lastLen' = 0
    /\ lastArgs' = <<>>
    /\ threw' = FALSE
    /\ result' = returned
    /\ preCount' = elementCount
    /\ prevPush' = Undefined
    /\ deque' = deque
    /\ run' = NoRun
    /\ Frame

GetCapacity == Observe("getCapacity", getCapacity, this)

Size == Observe("size", size(this), this)

IsEmpty == Observe("isEmpty", isEmpty(this), this)

IsFull == Observe("isFull", isFull(this), this)

FreeSpace == Observe("freeSpace", freeSpace(this), this)

\* mutant: toArray() takes the elements out of the buffer
ToArray_draining ==
    Observe("toArray", toArray(this), [this EXCEPT !.elementCount = 0])

ToArray == Observe("toArray", toArray(this), this)

Next ==
    \/ \E elements \in ArgLists : Enqueue(elements)
    \/ \E elements \in ArgLists : Push(elements)
    \/ Shift
    \/ Dequeue
    \/ Pop
    \/ GetCapacity
    \/ Size
    \/ IsEmpty
    \/ IsFull
    \/ FreeSpace
    \/ ToArray

Spec == Init /\ [][Next]_vars

\* ------------------------------------------------- Option operations
\* an Option built by Option.some(v) or Option.none(), next to a buffer that
\* is never called
InitOption ==
    /\ capacity = 1
    /\ allowOverwrite = FALSE
    /\ allowOverremove = FALSE
    /\ firstIndex = 0
    /\ elementCount = 0
    /\ buffer = <<>>
    /\ lastOp = "new"
    /\ lastLen = 0
    /\ lastArgs = <<>>
    /\ result = Undefined
    /\ threw = FALSE
    /\ preCount = 0
    /\ prevPush = Undefined
    /\ deque = <<>>
    /\ run = NoRun
    /\ \E o \in {none} \cup {some(v) : v \in Elems} :
           /\ hasInternalValue = o.hasInternalValue
           /\ value = o.value
           /\ optionOp = IF isSome(o) THEN "some" ELSE "none"
           /\ optionArg = o.value
           /\ optionBefore = o
    /\ optionResult = Undefined
    /\ optionThrew = FALSE

\* a call of the method name with argument arg that leaves the Option as o,
\* returns ret and throws when fails
OptionCall(name, arg, o, ret, fails) ==
    /\ hasInternalValue' = o.hasInternalValue
    /\ value' = o.value
    /\ optionOp' = name
    /\ optionArg' = arg
    /\ optionResult' = ret
    /\ optionThrew' = fails
    /\ optionBefore' = thisOption
    /\ UNCHANGED bufferVars

IsSome == OptionCall("isSome", Undefined, thisOption, isSome(thisOption), FALSE)

IsNone == OptionCall("isNone", Undefined, thisOption, isNone(thisOption), FALSE)

Expect ==
    OptionCall("expect", Undefined, thisOption,
               IF isSome(thisOption) THEN value ELSE Undefined,
               ~isSome(thisOption))

GetValue == OptionCall("getValue", Undefined, thisOption, getValue(thisOption), FALSE)

GetValueOrDefault(d) ==
    OptionCall("getValueOrDefault", d, thisOption, getValueOrDefault(thisOption, d), FALSE)

\* the callback is one that returns d
GetValueOrCalculatedDefault(d) ==
    OptionCall("getValueOrCalculatedDefault", d, thisOption,
               IF isSome(thisOption) THEN value ELSE d, FALSE)

SetValue(v) == OptionCall("setValue", v, setValue(thisOption, v), Undefined, FALSE)

SetValueIfNone(v) ==
    OptionCall("setValueIfNone", v, setValueIfNone(thisOption, v), Undefined, FALSE)

SetNone == OptionCall("setNone", Undefined, setNone(thisOption), Undefined, FALSE)

Contains(v) == OptionCall("contains", v, thisOption, contains(thisOption, v), FALSE)

Map(callback) == OptionCall("map", callback, thisOption, map(thisOption, callback), FALSE)

Filter(callback) ==
    OptionCall("filter", callback, thisOption, filter(thisOption, callback), FALSE)

\* the result recorded is the value the callback was called with, if it was
IfThen ==
    OptionCall("ifThen", Undefined, thisOption,
               IF isSome(thisOption) THEN value ELSE Undefined, FALSE)

And(option) == OptionCall("and", option, thisOption, and(thisOption, option), FALSE)

Or(option) == OptionCall("or", option, thisOption, or(thisOption, option), FALSE)

Xor(option) == OptionCall("xor", option, thisOption, xor(thisOption, option), FALSE)

NextOption ==
    \/ \E v \in Elems : SetValue(v)
    \/ \E v \in Elems : SetValueIfNone(v)
    \/ SetNone
    \/ GetValue
    \/ \E d \in Elems : GetValueOrDefault(d)
    \/ \E d \in Elems : GetValueOrCalculatedDefault(d)
    \/ Expect
    \/ IsSome
    \/ IsNone
    \/ \E v \in Elems : Contains(v)
    \/ \E callback \in [Elems -> Elems] : Map(callback)
    \/ \E callback \in [Elems -> BOOLEAN] : Filter(callback)
    \/ IfThen
    \/ \E option \in OptionArgs : And(option)
    \/ \E option \in OptionArgs : Or(option)
    \/ \E option \in OptionArgs : Xor(option)

SpecOption == InitOption /\ [][NextOption]_vars

\* ------------------------------------------------------------- typing
TypeOK ==
    /\ capacity \in 1..MaxCap
    /\ firstIndex \in Int
    /\ elementCount \in Int
    /\ Len(buffer) <= capacity
    /\ \A i \in 1..Len(buffer) : buffer[i] \in Elems \cup {Undefined, Hole}
    /\ lastOp \in {"new"} \cup Insertions \cup Removals \cup Queries
    /\ lastLen \in 0..MaxArgs
    /\ lastArgs \in ArgLists
    /\ threw \in BOOLEAN

\* ------------------------------------------------------------ claims

\* C1: in every reachable state toArray() returns a sequence whose length
\* equals size().
C1_ToArrayLengthIsSize == Len(toArray(this)) = size(this)

\* C2: in every reachable state toArray(), read element by element, equals
\* the abstract double-ended sequence run alongside, front to back.
C2_ToArrayIsLogicalSequence == ArraySpread(toArray(this)) = deque

\* C3: with both policies off, pushes of k <= capacity elements in total onto
\* an empty buffer followed by shifts: the shifts return the pushed elements
\* in insertion order, none fails while elements remain, and after k shifts
\* the buffer is empty.
C3_PushShiftFifo ==
    (Strict /\ run.kind = "push") =>
        /\ Len(run.ins) <= capacity
        /\ Len(run.outs) <= Len(run.ins)
        /\ run.outs = SubSeq(run.ins, 1, Len(run.outs))
        /\ size(this) = Len(run.ins) - Len(run.outs)
        /\ (Len(run.outs) = Len(run.ins) => isEmpty(this))

C3_Witness ==
    /\ Strict
    /\ lastOp = "shift"
    /\ run.kind = "push"
    /\ Len(run.ins) = capacity
    /\ capacity >= 2
    /\ run.ins[1] # run.ins[2]
    /\ run.outs = run.ins
    /\ isEmpty(this)

\* C4: with both policies off, enqueues of k <= capacity elements in total
\* into an empty buffer followed by dequeues: the dequeues return the
\* enqueued elements in insertion order, none fails while elements remain,
\* and after k dequeues the buffer is empty.
C4_EnqueueDequeueFifo ==
    (Strict /\ run.kind = "enqueue") =>
        /\ Len(run.ins) <= capacity
        /\ Len(run.outs) <= Len(run.ins)
        /\ run.outs = SubSeq(run.ins, 1, Len(run.outs))
        /\ size(this) = Len(run.ins) - Len(run.outs)
        /\ (Len(run.outs) = Len(run.ins) => isEmpty(this))

C4_Witness ==
    /\ Strict
    /\ lastOp = "dequeue"
    /\ run.kind = "enqueue"
    /\ Len(run.ins) = capacity
    /\ capacity >= 2
    /\ run.ins[1] # run.ins[2]
    /\ run.outs = run.ins
    /\ isEmpty(this)

\* C5: a pop() that immediately follows a successful push(x) of one element
\* does not fail and returns x.
C5_PushThenPop ==
    (lastOp = "pop" /\ prevPush # Undefined) => (~threw /\ result = prevPush)

C5_Witness ==
    /\ lastOp = "pop"
    /\ prevPush \in Elems
    /\ result = prevPush
    /\ allowOverwrite
    /\ preCount = capacity
    /\ firstIndex > 0

\* C6: with allowOverwrite off, a push or enqueue of more elements than
\* freeSpace() throws and changes nothing: firstIndex, the count, the
\* storage, size() and toArray() are as before the call.
C6_FailedInsertChangesNothing ==
    [][(lastOp' \in Insertions /\ ~allowOverwrite
            /\ lastLen' > freeSpace(this)) =>
        /\ threw'
        /\ firstIndex' = firstIndex
        /\ elementCount' = elementCount
        /\ buffer' = buffer
        /\ size(this)' = size(this)
        /\ toArray(this)' = toArray(this)]_vars

C6_Witness ==
    /\ lastOp \in Insertions
    /\ threw
    /\ ~allowOverwrite
    /\ lastLen > freeSpace(this)
    /\ freeSpace(this) > 0
    /\ size(this) > 0

\* C7: shift(), dequeue() and pop() on an empty buffer change neither
\* firstIndex nor the count nor the storage; with allowOverremove on they
\* return undefined without throwing and size() stays 0, with it off they
\* throw.
C7_RemoveFromEmpty ==
    [][(lastOp' \in Removals /\ isEmpty(this)) =>
        /\ firstIndex' = firstIndex
        /\ elementCount' = elementCount
        /\ buffer' = buffer
        /\ elementCount' >= 0
        /\ (allowOverremove => ~threw' /\ result' = Undefined /\ size(this)' = 0)
        /\ (~allowOverremove => threw')]_vars

C7_Witness ==
    /\ lastOp \in Removals
    /\ preCount = 0
    /\ isEmpty(this)
    /\ firstIndex > 0
    /\ Len(buffer) > 0
    /\ allowOverremove
    /\ ~threw
    /\ result = Undefined

\* C8: with allowOverwrite on, push(x) on a full buffer drops the logical
\* front and makes x the back, enqueue(x) on a full buffer drops the logical
\* back and makes x the front; the other elements keep their order and
\* size() stays equal to the capacity.
C8_OverwriteEvictsOppositeEnd ==
    [][(allowOverwrite /\ isFull(this) /\ lastOp' \in Insertions
            /\ lastLen' = 1) =>
        /\ ~threw'
        /\ size(this)' = size(this)
        /\ size(this)' = getCapacity
        /\ (lastOp' = "push" =>
                Logical(this)' = Append(Tail(Logical(this)), lastArgs'[1]))
        /\ (lastOp' = "enqueue" =>
                Logical(this)' =
                    <<lastArgs'[1]>> \o SubSeq(Logical(this), 1, size(this) - 1))]_vars

C8_Witness ==
    /\ allowOverwrite
    /\ lastOp = "enqueue"
    /\ ~threw
    /\ Len(lastArgs) = 1
    /\ preCount = capacity
    /\ capacity >= 2
    /\ Logical(this)[1] # Logical(this)[2]

\* C9: in every reachable state 0 <= size() <= capacity, size() + freeSpace()
\* = getCapacity(), freeSpace() >= 0, and isFull() holds exactly when size()
\* equals the capacity.
C9_SizeWithinCapacity ==
    /\ 0 <= size(this)
    /\ size(this) <= getCapacity
    /\ size(this) + freeSpace(this) = getCapacity
    /\ freeSpace(this) >= 0
    /\ isFull(this) <=> (size(this) = getCapacity)

C9_Witness ==
    /\ allowOverwrite
    /\ lastOp \in Insertions
    /\ lastLen > capacity
    /\ preCount > 0
    /\ isFull(this)

\* C10: a push or enqueue of n <= freeSpace() elements succeeds, increases
\* size() by exactly n and returns the resulting size(); a shift, dequeue or
\* pop on a non-empty buffer succeeds and decreases size() by exactly 1.
C10_SizeDelta ==
    /\ (lastOp \in Insertions /\ lastLen <= getCapacity - preCount) =>
            /\ ~threw
            /\ size(this) = preCount + lastLen
            /\ result = size(this)
    /\ (lastOp \in Removals /\ preCount > 0) =>
            /\ ~threw
            /\ size(this) = preCount - 1

C10_Witness ==
    /\ lastOp \in Insertions
    /\ ~threw
    /\ preCount >= 1
    /\ lastLen >= 1
    /\ lastLen <= getCapacity - preCount
    /\ firstIndex > 0

\* C11: with allowOverwrite on, once pushes alone have put a total of at
\* least capacity elements onto an empty buffer, toArray() is exactly the
\* last capacity pushed elements in push order.
C11_OverwritePushKeepsLast ==
    (allowOverwrite /\ run.kind = "push" /\ Len(run.ins) = capacity) =>
        /\ Len(toArray(this)) = capacity
        /\ ArraySpread(toArray(this)) = run.ins

C11_Witness ==
    /\ allowOverwrite
    /\ lastOp = "push"
    /\ run.kind = "push"
    /\ Len(run.ins) = capacity
    /\ capacity >= 2
    /\ preCount = capacity
    /\ firstIndex > 0
    /\ run.ins[1] # run.ins[2]
    /\ ArraySpread(toArray(this)) = run.ins

\* C12: the buffer refines the abstract bounded double-ended sequence: in
\* every reachable state the elementCount slots from firstIndex on, modulo
\* the capacity, hold the abstract sequence front to back; every shift() on
\* a non-empty buffer returns the abstract front and every dequeue() or
\* pop() the abstract back, which is an element and never an empty slot.
C12_RefinesDeque ==
    /\ [](Logical(this) = deque /\ Len(deque) <= capacity)
    /\ [][/\ (lastOp' = "shift" /\ ~isEmpty(this)) =>
                /\ ~threw'
                /\ result' = Head(deque)
                /\ result' \in Elems
                /\ deque' = Tail(deque)
          /\ (lastOp' \in {"dequeue", "pop"} /\ ~isEmpty(this)) =>
                /\ ~threw'
                /\ result' = deque[Len(deque)]
                /\ result' \in Elems
                /\ deque' = SubSeq(deque, 1, Len(deque) - 1)]_vars

C12_Witness ==
    /\ lastOp = "shift"
    /\ ~threw
    /\ result \in Elems
    /\ preCount = capacity
    /\ capacity >= 2
    /\ firstIndex = 0
    /\ Len(deque) >= 1
    /\ Logical(this) = deque

\* C13 as stated: after a successful enqueue(e1, ..., en) the logical
\* sequence is en, ..., e1 followed by the previous contents; after a
\* successful push(e1, ..., en) it is the previous contents followed by
\* e1, ..., en.
C13_InsertKeepsPreviousContents ==
    [][(lastOp' \in Insertions /\ ~threw') =>
        /\ (lastOp' = "enqueue" =>
                Logical(this)' = Reverse(lastArgs') \o Logical(this))
        /\ (lastOp' = "push" =>
                Logical(this)' = Logical(this) \o lastArgs')]_vars

\* C13 amended: after a successful enqueue(e1, ..., en) the logical sequence
\* is the first capacity elements of en, ..., e1 followed by the previous
\* contents, and for n >= 1 the front, which the next shift() returns, is
\* en; after a successful push(e1, ..., en) it is the last capacity elements
\* of the previous contents followed by e1, ..., en. Nothing is cut off when
\* n <= freeSpace().
C13_InsertOrderUpToCapacity ==
    [][(lastOp' \in Insertions /\ ~threw') =>
        /\ (lastOp' = "enqueue" =>
                /\ Logical(this)' =
                       FirstN(Reverse(lastArgs') \o Logical(this), capacity)
                /\ (lastLen' >= 1 =>
                       shiftResult(this)' = lastArgs'[Len(lastArgs')]))
        /\ (lastOp' = "push" =>
                Logical(this)' = LastN(Logical(this) \o lastArgs', capacity))
        /\ (lastLen' <= freeSpace(this) =>
                Len(Logical(this)') = Len(Logical(this)) + lastLen')]_vars

C13_Witness ==
    /\ lastOp = "enqueue"
    /\ ~threw
    /\ Len(lastArgs) >= 2
    /\ lastArgs[1] # lastArgs[2]
    /\ preCount >= 1
    /\ capacity >= 2
    /\ Logical(this) = FirstN(Reverse(lastArgs), capacity)

\* size() and the logical sequence of an object
Contents(s) == <<size(s), Logical(s)>>

RECURSIVE pushOneAtATime(_, _)
\* the object after push(e) was called for each element e in turn
pushOneAtATime(s, elements) ==
    IF elements = <<>> THEN s
    ELSE pushOneAtATime(pushLoop(s, truncate(<<Head(elements)>>)), Tail(elements))

RECURSIVE enqueueOneAtATime(_, _)
\* the object after enqueue(e) was called for each element e in turn
enqueueOneAtATime(s, elements) ==
    IF elements = <<>> THEN s
    ELSE enqueueOneAtATime(enqueueLoop(s, truncate(<<Head(elements)>>)),
                           Tail(elements))

\* C14: with allowOverwrite on, a push or enqueue of any argument list
\* succeeds and leaves the same size() and the same logical sequence as
\* inserting every element of the untruncated list one call at a time with
\* the same operation.
C14_TruncationLosesNothing ==
    [][(allowOverwrite /\ lastOp' \in Insertions) =>
        /\ ~threw'
        /\ Len(lastArgs') = lastLen'
        /\ Contents(this)' =
               Contents(IF lastOp' = "push"
                        THEN pushOneAtATime(this, lastArgs')
                        ELSE enqueueOneAtATime(this, lastArgs'))]_vars

C14_Witness ==
    /\ allowOverwrite
    /\ lastOp \in Insertions
    /\ ~threw
    /\ lastLen > capacity
    /\ preCount >= 1
    /\ lastArgs[1] # lastArgs[Len(lastArgs)]
    /\ Logical(this) # <<>>

\* C15: in every reachable state firstIndex is an integer in [0, capacity),
\* the slots the next enqueue and the next push write to are in
\* [0, capacity), no write has extended the storage past the capacity, and
\* wrapIndex maps every index, negative ones included, into [0, capacity):
\* firstIndex - 1 from 0 to capacity - 1 and firstIndex + 1 from
\* capacity - 1 to 0.
C15_FirstIndexInRange ==
    /\ firstIndex \in 0..(capacity - 1)
    /\ Len(buffer) <= capacity
    /\ wrapIndex(firstIndex - 1) \in 0..(capacity - 1)
    /\ getEndIndex(this) \in 0..(capacity - 1)
    /\ wrapIndex(0 - 1) = capacity - 1
    /\ wrapIndex((capacity - 1) + 1) = 0
    /\ \A i \in (0 - 2 * capacity)..(2 * capacity) :
            /\ wrapIndex(i) \in 0..(capacity - 1)
            /\ wrapIndex(i) = i % capacity

C15_Witness ==
    /\ lastOp = "enqueue"
    /\ ~threw
    /\ lastLen = 1
    /\ preCount = 0
    /\ capacity >= 2
    /\ firstIndex = capacity - 1
    /\ Len(buffer) = capacity

\* C16: a dequeue() or pop() on a non-empty buffer returns the logical back
\* element, clears its slot, leaves firstIndex and every other slot as they
\* were; a shift() on a non-empty buffer returns the logical front element,
\* clears its slot, advances firstIndex by exactly one modulo the capacity
\* and leaves every other slot as it was.
C16_RemovalFrame ==
    [][(lastOp' \in Removals /\ ~isEmpty(this)) =>
        LET front == firstIndex
            back  == (firstIndex + elementCount - 1) % capacity
            slot  == IF lastOp' = "shift" THEN front ELSE back
        IN /\ ~threw'
           /\ result' = ArrayGet(buffer, slot)
           /\ ArrayGet(buffer', slot) = Undefined
           /\ buffer' = [buffer EXCEPT ![slot + 1] = Undefined]
           /\ \A i \in 0..(capacity - 1) :
                  i # slot => ArrayGet(buffer', i) = ArrayGet(buffer, i)
           /\ (lastOp' = "shift" =>
                  /\ firstIndex' = (firstIndex + 1) % capacity
                  /\ Logical(this)' = Tail(Logical(this)))
           /\ (lastOp' # "shift" =>
                  /\ firstIndex' = firstIndex
                  /\ Logical(this)' =
                         SubSeq(Logical(this), 1, Len(Logical(this)) - 1))]_vars

C16_Witness ==
    /\ lastOp = "shift"
    /\ ~threw
    /\ result \in Elems
    /\ preCount >= 2
    /\ capacity >= 2
    /\ firstIndex = 0
    /\ Len(buffer) = capacity
    /\ buffer[capacity] = Undefined
    /\ elementCount = preCount - 1

\* C17: toArray(), getCapacity(), size(), isEmpty(), isFull() and
\* freeSpace() never throw and leave firstIndex, the count, every storage
\* slot and both policy flags as they were; no operation at all changes the
\* capacity or a policy flag.
C17_QueriesChangeNothing ==
    [][/\ (lastOp' \in Queries =>
              /\ ~threw'
              /\ firstIndex' = firstIndex
              /\ elementCount' = elementCount
              /\ buffer' = buffer
              /\ Logical(this)' = Logical(this))
       /\ capacity' = capacity
       /\ allowOverwrite' = allowOverwrite
       /\ allowOverremove' = allowOverremove]_vars

C17_Witness ==
    /\ lastOp = "toArray"
    /\ ~threw
    /\ elementCount >= 1
    /\ firstIndex > 0
    /\ preCount = elementCount
    /\ result = toArray(this)

\* the slots of the occupied region
Occupied(s) ==
    {(s.firstIndex + k) % capacity : k \in 0..(s.elementCount - 1)}

\* C18: in every reachable state every storage slot outside the occupied
\* region (the elementCount slots from firstIndex on, modulo the capacity)
\* is empty: never assigned, or undefined.
C18_UnoccupiedSlotsEmpty ==
    /\ \A i \in 0..(capacity - 1) :
           i \notin Occupied(this) => ArrayGet(buffer, i) = Undefined
    /\ \A i \in 1..Len(buffer) :
           (i - 1) \notin Occupied(this) => buffer[i] \in {Undefined, Hole}

C18_Witness ==
    /\ allowOverwrite
    /\ lastOp \in {"dequeue", "pop"}
    /\ ~threw
    /\ result \in Elems
    /\ preCount = capacity
    /\ capacity >= 2
    /\ firstIndex > 0
    /\ Len(buffer) = capacity
    /\ buffer[firstIndex] = Undefined

\* C20: in every reachable state arePointersReversed() is true exactly when
\* the occupied region wraps across the end of the storage, that is when
\* the count is at least 1 and firstIndex + count exceeds the capacity; it
\* is false for an empty buffer whatever firstIndex is.
C20_ReversedIffWraps ==
    arePointersReversed(this) <=>
        (elementCount >= 1 /\ firstIndex + elementCount > capacity)

\* C19: in every state of an Option reached from some(v) or none() by
\* setValue, setValueIfNone and setNone calls (and calls that change
\* nothing): whenever isNone() is true, getValue() returns undefined and
\* getValueOrDefault(d) returns d; and right after setValueIfNone(v) the
\* Option isSome(), holding v if it was none before the call and its
\* previous value otherwise.
C19_OptionConsistent ==
    /\ isNone(thisOption) =>
           /\ getValue(thisOption) = Undefined
           /\ \A d \in Elems : getValueOrDefault(thisOption, d) = d
    /\ optionOp = "setValueIfNone" =>
           /\ isSome(thisOption)
           /\ getValue(thisOption) =
                  IF isNone(optionBefore) THEN optionArg
                  ELSE getValue(optionBefore)

====
